---------------------------- MODULE Spec2Model ----------------------------
(***************************************************************************)
(* CUDA HAL driver tracing context (iree/hal/drivers/cuda/tracing.c):      *)
(* a fixed pool of timestamp events threaded onto a free list, onto the    *)
(* caller-owned event list of a command buffer, and onto the context's     *)
(* list of submitted command buffers.                                      *)
(*                                                                         *)
(* Every public operation holds event_mutex for its whole body, so each    *)
(* operation is one atomic action; the threads of SpecThreads take and     *)
(* release event_mutex around it.                                          *)
(***************************************************************************)
EXTENDS Integers, Sequences, FiniteSets, TLC

(* ------------------------------ bounds --------------------------------- *)

\* Number of events in event_pool (IREE_HAL_CUDA_TRACING_DEFAULT_QUERY_CAPACITY
\* in the source, scaled down).
QueryCapacity == 2

\* Number of caller-owned event lists (command buffers).
NumLists == 2

\* Largest elapsed time, in milliseconds, the device reports for an event.
MaxMillis == 1

\* The per-query notification counter saturates at this value.
MaxNotify == 2

\* Cap on the number of calls the callers make on the context.
MaxCalls == 8

\* Cap on the calls that depart from the life cycle of an event list
\* (insert_query*, then notify_submitted, then collect, then free).
MaxIrregular == 1

\* Cap on the number of calls in the specifications of short runs.
MaxShortCalls == 4

\* Verbosity levels run from 0 (off) to MaxVerbosity.
MaxVerbosity == 2

\* Largest reading of iree_tracing_time() at the calibration.
MaxHostTime == 1

\* Number of threads that call into the context.
NumThreads == 2

\* Cap on the number of calls the threads make.
MaxThreadCalls == 3

\* Cap on the number of calls of the threads that trace through zone calls.
MaxZoneCalls == 5

(* ------------------------------ values --------------------------------- *)

NULL == -1

\* cuEventSynchronize / cuEventQuery do not return CUDA_SUCCESS for the event.
NotReady == -2

Events == 0 .. (QueryCapacity - 1)

\* The device objects (CUevent): one per pool slot, and context->base_event.
BaseEvent == QueryCapacity

Objects == Events \cup {BaseEvent}

Lists == 1 .. NumLists

Threads == 1 .. NumThreads

Verbosities == 0 .. MaxVerbosity

HostTimes == 1 .. MaxHostTime

VARIABLES
    asserts,               \* build flavour: TRUE when IREE_ASSERT is compiled in
    event_pool,            \* context->event_pool[i] link fields and flag
    event_freelist_head,   \* context->event_freelist_head
    submitted_event_list,  \* context->submitted_event_list {head, tail}
    event_lists,           \* the caller-owned event lists {head, tail}
    device,                \* per event: NotReady or the elapsed milliseconds
    halted,                \* "none" while the process runs
    op,                    \* the last operation that ran
    emitted,               \* iree_tracing_gpu_zone_notify calls of that operation
    notifyCount,           \* zone_notify calls per query since its insert_query
    issued,                \* events handed out by insert_query at least once
    history,               \* per event list: what the caller did with it
    submitLog,             \* list heads in NotifySubmitted order since last collect
    irregular,             \* calls so far that depart from the list life cycle
    calls,                 \* calls made on the context so far
    query_capacity,        \* context->query_capacity
    verbosity,             \* context->verbosity
    zone,                  \* the last zone call and its zone_begin/zone_end
    pc,                    \* per thread: where it is in its call
    call,                  \* per thread: the call it is in
    event_mutex,           \* context->event_mutex: NULL or the owning thread
    seen,                  \* per thread: the guarded fields as its call read them
    context,               \* "none", "live" or "freed"
    status,                \* what the last allocate returned
    created,               \* device objects cuEventCreate has made
    base_records,          \* cuEventRecord calls on base_event so far
    tracy_contexts,        \* iree_tracing_gpu_context_allocate calls so far
    teardown               \* what the last context_free did, in order

\* The variables the operations on a live context work on.
callVars == <<asserts, event_pool, event_freelist_head, submitted_event_list,
              event_lists, device, halted, op, emitted, notifyCount, issued,
              history, submitLog, irregular, calls>>

threadVars == <<pc, call, event_mutex, seen>>

lifeVars == <<context, status, created, base_records, tracy_contexts, teardown>>

configVars == <<query_capacity, verbosity>>

vars == <<callVars, zone, threadVars, lifeVars, configVars>>

(* ------------------------------ helpers -------------------------------- *)

SeqSet(s) == {s[i] : i \in DOMAIN s}

Min(a, b) == IF a < b THEN a ELSE b

\* An empty iree_hal_cuda_tracing_context_event_list_t.
EmptyList == [head |-> NULL, tail |-> NULL]

\* The events met by  event = event->next_in_command_buffer  from `event`
\* until NULL; cyclic when the walk comes back to an event it already met.
RECURSIVE WalkCommandBuffer(_, _, _)
WalkCommandBuffer(pool, event, acc) ==
    IF event = NULL THEN [nodes |-> acc, cyclic |-> FALSE]
    ELSE IF event \in SeqSet(acc) THEN [nodes |-> acc, cyclic |-> TRUE]
    ELSE WalkCommandBuffer(pool, pool[event].next_in_command_buffer,
                           Append(acc, event))

\* The list heads met by  events = events->next_submission  from `events`.
RECURSIVE WalkSubmissions(_, _, _)
WalkSubmissions(pool, events, acc) ==
    IF events = NULL THEN [nodes |-> acc, cyclic |-> FALSE]
    ELSE IF events \in SeqSet(acc) THEN [nodes |-> acc, cyclic |-> TRUE]
    ELSE WalkSubmissions(pool, pool[events].next_submission,
                         Append(acc, events))

\* Events on the free list.
FreeListSeq == WalkCommandBuffer(event_pool, event_freelist_head, <<>>).nodes

FreeListSet == SeqSet(FreeListSeq)

\* Events reachable from the head of a caller-owned event list.
ListSeq(l) == WalkCommandBuffer(event_pool, event_lists[l].head, <<>>).nodes

ListSet(l) == SeqSet(ListSeq(l))

\* Heads on the submitted list, in queue order.
SubmittedHeads ==
    WalkSubmissions(event_pool, submitted_event_list.head, <<>>).nodes

\* Events reachable from the submitted list.
SubmittedSet ==
    UNION {SeqSet(WalkCommandBuffer(event_pool, SubmittedHeads[i], <<>>).nodes)
           : i \in DOMAIN SubmittedHeads}

\* The events the collect walk can reach from the given list heads, in the
\* order of the walk.
RECURSIVE WalkLists(_, _)
WalkLists(pool, heads) ==
    IF heads = <<>> THEN <<>>
    ELSE WalkCommandBuffer(pool, Head(heads), <<>>).nodes
         \o WalkLists(pool, Tail(heads))

\* The query ids of a sequence of zone_notify calls.
QueryIds(out) == [i \in DOMAIN out |-> out[i].query_id]

\* A zone_notify call.
Notify(query_id, timestamp) == [query_id |-> query_id, timestamp |-> timestamp]

\* Number of zone_notify calls for `e` in a sequence of calls.
NotifiesFor(out, e) == Cardinality({i \in DOMAIN out : out[i].query_id = e})

\* notifyCount after the calls of one operation.
CountAfter(out) ==
    [e \in Events |-> Min(MaxNotify, notifyCount[e] + NotifiesFor(out, e))]

\* History of an event list the caller has not used since its last Free.
FreshHistory ==
    [queries |-> <<>>, phase |-> "fresh", base |-> 0, solo |-> TRUE]

\* The caller departs from the life cycle when it inserts a query into a list
\* it has submitted, submits a list twice, or frees a list it has submitted
\* before any collect ran.
RegularInsert(l) == history[l].phase \in {"fresh", "building"}

RegularSubmit(l) == history[l].phase \in {"fresh", "building"}

RegularFree(l) == history[l].phase # "submitted"

\* A call is possible while the caps allow it.
Budget(regular) == calls < MaxCalls /\ (regular \/ irregular < MaxIrregular)

Spend(regular) == IF regular THEN irregular ELSE irregular + 1

(* ------------------------------- Init ---------------------------------- *)

\* A pool whose last slot links back to slot 0.
LinkedPoolRing(n) ==
    [i \in Events |->
        [next_in_command_buffer |-> IF i + 1 < n THEN i + 1
                                    ELSE IF i + 1 = n THEN 0 ELSE NULL,
         next_submission |-> NULL,
         was_submitted |-> FALSE]]

\* The pool after the loop of allocate over n slots: every slot linked to the
\* next one, the last slot's link NULL.  The slots the loop did not reach keep
\* the zeroes of iree_allocator_malloc.
LinkedPool(n) ==
    [i \in Events |->
        [next_in_command_buffer |-> IF i + 1 < n THEN i + 1 ELSE NULL,
         next_submission |-> NULL,
         was_submitted |-> FALSE]]

\* No zone call yet.
NoZone == [name |-> "none", list |-> 0, verbosity |-> 0, sink |-> <<>>]

\* A thread that is in no call.
NoCall == [name |-> "none", list |-> 0, event |-> NULL]

\* iree_tracing_gpu_context_allocate(..., is_calibrated, cpu_timestamp,
\* gpu_timestamp, timestamp_period)
TracyContext(cpu_timestamp) ==
    [is_calibrated |-> FALSE, cpu_timestamp |-> cpu_timestamp,
     gpu_timestamp |-> 0]

\* The callers before their first call: empty event lists, no thread in a
\* call.  An event that was never recorded synchronizes at once, and the
\* failing cuEventElapsedTime leaves relative_millis at 0.
InitCallers ==
    /\ asserts \in BOOLEAN
    /\ zone = NoZone
    /\ pc = [t \in Threads |-> "idle"]
    /\ call = [t \in Threads |-> NoCall]
    /\ event_mutex = NULL
    /\ seen = [t \in Threads |-> <<>>]
    /\ teardown = <<>>
    /\ event_lists = [l \in Lists |-> EmptyList]
    /\ device = [e \in Events |-> 0]
    /\ halted = "none"
    /\ emitted = <<>>
    /\ notifyCount = [e \in Events |-> 0]
    /\ issued = {}
    /\ history = [l \in Lists |-> FreshHistory]
    /\ submitLog = <<>>
    /\ irregular = 0
    /\ calls = 0

\* iree_hal_cuda_tracing_context_allocate returned a context with a pool of n
\* slots and verbosity v: event_freelist_head is &event_pool[0], the submitted
\* list is empty, the base event was recorded once and the host time read.
InitContext(n, v) ==
    /\ InitCallers
    /\ query_capacity = n
    /\ verbosity = v
    /\ context = "live"
    /\ status = "ok"
    /\ created = {o \in Objects : o < n \/ o = BaseEvent}
    /\ base_records = 1
    /\ \E t \in HostTimes : tracy_contexts = <<TracyContext(t)>>
    /\ event_pool = LinkedPool(n)
    /\ event_freelist_head = 0
    /\ submitted_event_list = EmptyList
    /\ op = [name |-> "Allocate", list |-> 0, visited |-> <<>>]

\* Before allocate: the caller's context pointer is NULL.
InitNoContext ==
    /\ InitCallers
    /\ query_capacity = QueryCapacity
    /\ verbosity = 0
    /\ context = "none"
    /\ status = "none"
    /\ created = {}
    /\ base_records = 0
    /\ tracy_contexts = <<>>
    /\ event_pool = LinkedPool(0)
    /\ event_freelist_head = NULL
    /\ submitted_event_list = EmptyList
    /\ op = [name |-> "none", list |-> 0, visited |-> <<>>]

Init == InitContext(QueryCapacity, MaxVerbosity)

\* An operation on the live context by a caller that makes one call at a time.
OnContext(A) ==
    /\ context = "live"
    /\ A
    /\ UNCHANGED <<zone, threadVars, lifeVars, configVars>>

(* ---------------------------- InsertQuery ------------------------------- *)

\* iree_hal_cuda_tracing_context_event_list_append_event
AppendEvent(pool, list, event) ==
    IF list.head = NULL
    THEN [pool |-> pool, list |-> [head |-> event, tail |-> event]]
    ELSE [pool |-> [pool EXCEPT ![list.tail].next_in_command_buffer = event],
          list |-> [list EXCEPT !.tail = event]]

\* What the caller did with list l, after a successful insert_query on it.
HistoryAfterInsert(l, event) ==
    [k \in Lists |->
        IF k = l
        THEN [history[k] EXCEPT
                !.queries = Append(@, event),
                !.phase = IF @ \in {"fresh", "building"} THEN "building"
                          ELSE "irregular",
                !.base = IF history[k].queries = <<>>
                         THEN Cardinality(FreeListSet) ELSE @]
        ELSE [history[k] EXCEPT
                !.solo = IF history[k].queries = <<>> THEN @ ELSE FALSE]]

\* iree_hal_cuda_stream_tracing_context_insert_query /
\* iree_hal_cuda_graph_tracing_context_insert_query on event list l.
InsertQuery(l) ==
    /\ halted = "none"
    /\ Budget(RegularInsert(l))
    /\ irregular' = Spend(RegularInsert(l))
    /\ calls' = calls + 1
    /\ op' = [name |-> "InsertQuery", list |-> l, visited |-> <<>>]
    /\ emitted' = <<>>
    /\ UNCHANGED <<asserts, submitted_event_list, submitLog>>
    /\ IF event_freelist_head = NULL \/ event_freelist_head >= query_capacity
       THEN \* event->next_in_command_buffer reads through a null pointer,
            \* or past the end of event_pool
            /\ halted' \in {"segv", "undefined"}
            /\ UNCHANGED <<event_pool, event_freelist_head, event_lists,
                           device, notifyCount, issued, history>>
       ELSE LET event == event_freelist_head
                next == event_pool[event].next_in_command_buffer
            IN  /\ event_freelist_head' = next
                /\ IF asserts /\ next = NULL
                   THEN \* IREE_ASSERT(event->next_in_command_buffer != NULL)
                        /\ halted' = "assert"
                        /\ UNCHANGED <<event_pool, event_lists, device,
                                       notifyCount, issued, history>>
                   ELSE LET cleared == [event_pool EXCEPT
                                ![event].next_in_command_buffer = NULL]
                            r == AppendEvent(cleared, event_lists[l], event)
                        IN  /\ halted' = "none"
                            /\ event_pool' = r.pool
                            /\ event_lists' = [event_lists EXCEPT ![l] = r.list]
                            /\ device' = [device EXCEPT ![event] = NotReady]
                            /\ notifyCount' = [notifyCount EXCEPT ![event] = 0]
                            /\ issued' = issued \cup {event}
                            /\ history' = HistoryAfterInsert(l, event)

\* iree_hal_cuda_graph_tracing_context_insert_query on event list l; ok tells
\* whether cuGraphAddEventRecordNode returns CUDA_SUCCESS.
InsertQueryGraph(l, ok) ==
    /\ halted = "none"
    /\ Budget(RegularInsert(l))
    /\ irregular' = Spend(RegularInsert(l))
    /\ calls' = calls + 1
    /\ op' = [name |-> "InsertQueryGraph", list |-> l, visited |-> <<>>]
    /\ emitted' = <<>>
    /\ UNCHANGED <<asserts, submitted_event_list, submitLog>>
    /\ IF event_freelist_head = NULL \/ event_freelist_head >= query_capacity
       THEN /\ halted' \in {"segv", "undefined"}
            /\ UNCHANGED <<event_pool, event_freelist_head, event_lists,
                           device, notifyCount, issued, history>>
       ELSE LET event == event_freelist_head
                next == event_pool[event].next_in_command_buffer
                cleared == [event_pool EXCEPT
                              ![event].next_in_command_buffer = NULL]
            IN  /\ event_freelist_head' = next
                /\ IF asserts /\ next = NULL
                   THEN \* IREE_ASSERT(event->next_in_command_buffer != NULL)
                        /\ halted' = "assert"
                        /\ UNCHANGED <<event_pool, event_lists, device,
                                       notifyCount, issued, history>>
                   ELSE IF asserts /\ ~ok
                   THEN \* IREE_ASSERT(iree_status_is_ok(status))
                        /\ halted' = "assert"
                        /\ event_pool' = cleared
                        /\ UNCHANGED <<event_lists, device, notifyCount,
                                       issued, history>>
                   ELSE LET r == AppendEvent(cleared, event_lists[l], event)
                        IN  /\ halted' = "none"
                            /\ event_pool' = r.pool
                            /\ event_lists' = [event_lists EXCEPT ![l] = r.list]
                            /\ device' = IF ok
                                         THEN [device EXCEPT ![event] = NotReady]
                                         ELSE device
                            /\ notifyCount' = [notifyCount EXCEPT ![event] = 0]
                            /\ issued' = issued \cup {event}
                            /\ history' = HistoryAfterInsert(l, event)

\* What the stream insert_query leaves behind when called on event list l in
\* the current state: the pool, the free list head, the caller's lists, and
\* the ways the call can end.
InsertQueryPoolState(l) ==
    IF event_freelist_head = NULL \/ event_freelist_head >= query_capacity
    THEN [event_pool |-> event_pool,
          event_freelist_head |-> event_freelist_head,
          event_lists |-> event_lists,
          halted |-> {"segv", "undefined"}]
    ELSE LET event == event_freelist_head
             next == event_pool[event].next_in_command_buffer
             cleared == [event_pool EXCEPT
                           ![event].next_in_command_buffer = NULL]
             r == AppendEvent(cleared, event_lists[l], event)
         IN  IF asserts /\ next = NULL
             THEN [event_pool |-> event_pool,
                   event_freelist_head |-> next,
                   event_lists |-> event_lists,
                   halted |-> {"assert"}]
             ELSE [event_pool |-> r.pool,
                   event_freelist_head |-> next,
                   event_lists |-> [event_lists EXCEPT ![l] = r.list],
                   halted |-> {"none"}]

(* ------------------------------ device --------------------------------- *)

\* The device finishes the work recorded for event e.
DeviceComplete(e) ==
    /\ halted = "none"
    /\ device[e] = NotReady
    /\ \E millis \in 0 .. MaxMillis : device' = [device EXCEPT ![e] = millis]
    /\ op' = [name |-> "DeviceComplete", list |-> 0, visited |-> <<>>]
    /\ emitted' = <<>>
    /\ UNCHANGED <<asserts, event_pool, event_freelist_head,
                   submitted_event_list, event_lists, halted, notifyCount,
                   issued, history, submitLog, irregular, calls>>

(* -------------------------- NotifySubmitted ---------------------------- *)

\* A notify_submitted without the return on an empty list.
NotifySubmittedAnyList(l) ==
    /\ halted = "none"
    /\ Budget(RegularSubmit(l))
    /\ irregular' = Spend(RegularSubmit(l))
    /\ calls' = calls + 1
    /\ op' = [name |-> "NotifySubmitted", list |-> l, visited |-> <<>>]
    /\ emitted' = <<>>
    /\ UNCHANGED <<asserts, event_freelist_head, event_lists, device, halted,
                   notifyCount, issued>>
    /\ IF FALSE
       THEN UNCHANGED <<event_pool, submitted_event_list, history, submitLog>>
       ELSE LET head == event_lists[l].head IN
            /\ IF submitted_event_list.head = NULL
               THEN /\ submitted_event_list' = [head |-> head, tail |-> head]
                    /\ UNCHANGED event_pool
               ELSE /\ event_pool' =
                         [event_pool EXCEPT
                            ![submitted_event_list.tail].next_submission = head]
                    /\ submitted_event_list' =
                         [submitted_event_list EXCEPT !.tail = head]
            /\ history' =
                 [history EXCEPT
                    ![l].phase = IF @ \in {"fresh", "building"}
                                 THEN "submitted" ELSE "irregular"]
            /\ submitLog' = Append(submitLog, head)

\* iree_hal_cuda_tracing_notify_submitted on event list l.
NotifySubmitted(l) ==
    /\ halted = "none"
    /\ Budget(RegularSubmit(l))
    /\ irregular' = Spend(RegularSubmit(l))
    /\ calls' = calls + 1
    /\ op' = [name |-> "NotifySubmitted", list |-> l, visited |-> <<>>]
    /\ emitted' = <<>>
    /\ UNCHANGED <<asserts, event_freelist_head, event_lists, device, halted,
                   notifyCount, issued>>
    /\ IF event_lists[l].head = NULL
       THEN UNCHANGED <<event_pool, submitted_event_list, history, submitLog>>
       ELSE LET head == event_lists[l].head IN
            /\ IF submitted_event_list.head = NULL
               THEN /\ submitted_event_list' = [head |-> head, tail |-> head]
                    /\ UNCHANGED event_pool
               ELSE /\ event_pool' =
                         [event_pool EXCEPT
                            ![submitted_event_list.tail].next_submission = head]
                    /\ submitted_event_list' =
                         [submitted_event_list EXCEPT !.tail = head]
            /\ history' =
                 [history EXCEPT
                    ![l].phase = IF @ \in {"fresh", "building"}
                                 THEN "submitted" ELSE "irregular"]
            /\ submitLog' = Append(submitLog, head)

(* ------------------------------ Collect -------------------------------- *)

\* A timestamp on the host's clock: the host time of the calibration plus the
\* elapsed nanoseconds.
GpuTimestampOnHostClock(relative_millis) ==
    tracy_contexts[1].cpu_timestamp + relative_millis * 1000000

\* gpu_timestamp = (int64_t)((double)relative_millis * 1000000.0)
GpuTimestamp(relative_millis) == relative_millis * 1000000

\* The inner per-event loop of collect, started at `event`: the zone_notify
\* calls it makes before it leaves the loop; hang when it never leaves.
RECURSIVE CollectCommandBuffer(_, _, _, _)
CollectCommandBuffer(pool, dev, event, acc) ==
    IF event = NULL THEN [out |-> acc, hang |-> FALSE]
    ELSE IF dev[event] = NotReady THEN [out |-> acc, hang |-> FALSE]
    ELSE IF \E i \in DOMAIN acc : acc[i].query_id = event
         THEN [out |-> acc, hang |-> TRUE]
    ELSE CollectCommandBuffer(pool, dev, pool[event].next_in_command_buffer,
                              Append(acc, Notify(event, GpuTimestamp(dev[event]))))

\* The outer per-command_buffer loop of collect, started at `events`.
RECURSIVE CollectSubmissions(_, _, _, _, _)
CollectSubmissions(pool, dev, events, visited, out) ==
    IF events = NULL
    THEN [visited |-> visited, out |-> out, hang |-> FALSE]
    ELSE IF events \in SeqSet(visited)
    THEN [visited |-> visited, out |-> out, hang |-> TRUE]
    ELSE LET r == CollectCommandBuffer(pool, dev, events, <<>>) IN
         IF r.hang
         THEN [visited |-> Append(visited, events), out |-> out \o r.out,
               hang |-> TRUE]
         ELSE CollectSubmissions(pool, dev, pool[events].next_submission,
                                 Append(visited, events), out \o r.out)

\* What the caller saw happen to its lists when a collect returned.
HistoryAfterCollect ==
    [k \in Lists |->
        IF history[k].phase = "submitted"
        THEN [history[k] EXCEPT
                !.phase = IF \A i \in DOMAIN history[k].queries :
                                device[history[k].queries[i]] # NotReady
                          THEN "resolved" ELSE "partial"]
        ELSE history[k]]

\* A collect whose "no outstanding queries" return also resets the tail of the
\* submitted list.
CollectResetsTail ==
    /\ halted = "none"
    /\ calls < MaxCalls
    /\ calls' = calls + 1
    /\ op' = [name |-> "Collect", list |-> 0,
              visited |-> IF submitted_event_list.head = NULL THEN <<>>
                          ELSE CollectSubmissions(
                                   event_pool, device,
                                   submitted_event_list.head, <<>>, <<>>).visited]
    /\ UNCHANGED <<asserts, event_freelist_head, event_lists, device, issued,
                   irregular>>
    /\ IF submitted_event_list.head = NULL
       THEN /\ emitted' = <<>>
            /\ submitted_event_list' = EmptyList
            /\ UNCHANGED <<event_pool, halted, notifyCount, history, submitLog>>
       ELSE LET r == CollectSubmissions(event_pool, device,
                                        submitted_event_list.head, <<>>, <<>>)
            IN  /\ emitted' = r.out
                /\ notifyCount' = CountAfter(r.out)
                /\ event_pool' =
                     [e \in Events |->
                        IF e \in SeqSet(r.visited)
                        THEN [event_pool[e] EXCEPT !.was_submitted = TRUE]
                        ELSE event_pool[e]]
                /\ IF r.hang
                   THEN /\ halted' = "hang"
                        /\ UNCHANGED <<submitted_event_list, history, submitLog>>
                   ELSE /\ halted' = "none"
                        /\ submitted_event_list' =
                             [submitted_event_list EXCEPT !.head = NULL]
                        /\ history' = HistoryAfterCollect
                        /\ submitLog' = <<>>

\* A collect that makes the first list it walked the head of the free list.
CollectReturnsToFreeList ==
    /\ halted = "none"
    /\ calls < MaxCalls
    /\ calls' = calls + 1
    /\ op' = [name |-> "Collect", list |-> 0,
              visited |-> IF submitted_event_list.head = NULL THEN <<>>
                          ELSE CollectSubmissions(
                                   event_pool, device,
                                   submitted_event_list.head, <<>>, <<>>).visited]
    /\ UNCHANGED <<asserts, event_lists, device, issued, irregular>>
    /\ event_freelist_head' =
         IF submitted_event_list.head = NULL THEN event_freelist_head
         ELSE submitted_event_list.head
    /\ IF submitted_event_list.head = NULL
       THEN /\ emitted' = <<>>
            /\ UNCHANGED <<event_pool, submitted_event_list, halted,
                           notifyCount, history, submitLog>>
       ELSE LET r == CollectSubmissions(event_pool, device,
                                        submitted_event_list.head, <<>>, <<>>)
            IN  /\ emitted' = r.out
                /\ notifyCount' = CountAfter(r.out)
                /\ event_pool' =
                     [e \in Events |->
                        IF e \in SeqSet(r.visited)
                        THEN [event_pool[e] EXCEPT !.was_submitted = TRUE]
                        ELSE event_pool[e]]
                /\ IF r.hang
                   THEN /\ halted' = "hang"
                        /\ UNCHANGED <<submitted_event_list, history, submitLog>>
                   ELSE /\ halted' = "none"
                        /\ submitted_event_list' =
                             [submitted_event_list EXCEPT !.head = NULL]
                        /\ history' = HistoryAfterCollect
                        /\ submitLog' = <<>>

\* iree_hal_cuda_tracing_context_collect
Collect ==
    /\ halted = "none"
    /\ calls < MaxCalls
    /\ calls' = calls + 1
    /\ op' = [name |-> "Collect", list |-> 0,
              visited |-> IF submitted_event_list.head = NULL THEN <<>>
                          ELSE CollectSubmissions(
                                   event_pool, device,
                                   submitted_event_list.head, <<>>, <<>>).visited]
    /\ UNCHANGED <<asserts, event_freelist_head, event_lists, device, issued,
                   irregular>>
    /\ IF submitted_event_list.head = NULL
       THEN /\ emitted' = <<>>
            /\ UNCHANGED <<event_pool, submitted_event_list, halted,
                           notifyCount, history, submitLog>>
       ELSE LET r == CollectSubmissions(event_pool, device,
                                        submitted_event_list.head, <<>>, <<>>)
            IN  /\ emitted' = r.out
                /\ notifyCount' = CountAfter(r.out)
                /\ event_pool' =
                     [e \in Events |->
                        IF e \in SeqSet(r.visited)
                        THEN [event_pool[e] EXCEPT !.was_submitted = TRUE]
                        ELSE event_pool[e]]
                /\ IF r.hang
                   THEN /\ halted' = "hang"
                        /\ UNCHANGED <<submitted_event_list, history, submitLog>>
                   ELSE /\ halted' = "none"
                        /\ submitted_event_list' =
                             [submitted_event_list EXCEPT !.head = NULL]
                        /\ history' = HistoryAfterCollect
                        /\ submitLog' = <<>>

(* -------------------------------- Free --------------------------------- *)

\* The zero-valued zone_notify calls for a list that was never submitted.
RECURSIVE SyntheticNotifies(_, _, _)
SyntheticNotifies(pool, event, acc) ==
    IF event = NULL THEN [out |-> acc, hang |-> FALSE]
    ELSE IF \E i \in DOMAIN acc : acc[i].query_id = event
         THEN [out |-> acc, hang |-> TRUE]
    ELSE SyntheticNotifies(pool, pool[event].next_in_command_buffer,
                           Append(acc, Notify(event, 0)))

\* What the caller did with its lists, after a free of list l.
HistoryAfterFree(l) ==
    [k \in Lists |->
        IF k = l THEN FreshHistory
        ELSE [history[k] EXCEPT
                !.solo = IF history[k].queries = <<>> THEN @ ELSE FALSE]]

\* iree_hal_cuda_tracing_free on event list l.
Free(l) ==
    /\ halted = "none"
    /\ Budget(RegularFree(l))
    /\ irregular' = Spend(RegularFree(l))
    /\ calls' = calls + 1
    /\ op' = [name |-> "Free", list |-> l, visited |-> <<>>]
    /\ UNCHANGED <<asserts, submitted_event_list, device, issued, submitLog>>
    /\ IF event_lists[l].head = NULL
       THEN /\ emitted' = <<>>
            /\ UNCHANGED <<event_pool, event_freelist_head, event_lists,
                           halted, notifyCount, history>>
       ELSE LET head == event_lists[l].head
                tail == event_lists[l].tail
                r == IF event_pool[head].was_submitted
                     THEN [out |-> <<>>, hang |-> FALSE]
                     ELSE SyntheticNotifies(event_pool, head, <<>>)
            IN  /\ emitted' = r.out
                /\ notifyCount' = CountAfter(r.out)
                /\ IF r.hang
                   THEN /\ halted' = "hang"
                        /\ UNCHANGED <<event_pool, event_freelist_head,
                                       event_lists, history>>
                   ELSE /\ halted' = "none"
                        /\ history' = HistoryAfterFree(l)
                        /\ event_freelist_head' = head
                        /\ IF event_freelist_head = NULL
                           THEN UNCHANGED <<event_pool, event_lists>>
                           ELSE /\ event_pool' =
                                     [[event_pool EXCEPT
                                         ![head].next_submission = NULL,
                                         ![head].was_submitted = FALSE]
                                      EXCEPT ![tail].next_in_command_buffer =
                                                 event_freelist_head]
                                /\ event_lists' =
                                     [event_lists EXCEPT ![l] = EmptyList]

(* ------------------------ zone begin and end --------------------------- *)

ZoneNames == {"ZoneBegin", "ZoneBeginExternal", "ZoneEnd"}

\* The call a zone impl makes on the sink once insert_query has returned.
SinkCall(name, query_id) ==
    [call |-> CASE name = "ZoneBegin" -> "iree_tracing_gpu_zone_begin"
                [] name = "ZoneBeginExternal" ->
                       "iree_tracing_gpu_zone_begin_external"
                [] OTHER -> "iree_tracing_gpu_zone_end",
     query_id |-> query_id]

\* iree_hal_cuda_{stream,graph}_tracing_zone_{begin,begin_external,end}_impl
\* with verbosity v on event list l: return on a NULL context or a verbosity
\* above the context's; otherwise insert_query, then the call on the sink.
Zone(name, l, v) ==
    /\ context # "freed"
    /\ IF context = "none" \/ v > verbosity
       THEN /\ UNCHANGED callVars
            /\ zone' = [name |-> name, list |-> l, verbosity |-> v,
                        sink |-> <<>>]
       ELSE /\ InsertQuery(l)
            /\ zone' = [name |-> name, list |-> l, verbosity |-> v,
                        sink |-> IF halted' = "none"
                                 THEN <<SinkCall(name, event_freelist_head)>>
                                 ELSE <<>>]
    /\ UNCHANGED <<threadVars, lifeVars, configVars>>

(* ----------------------- allocate and context_free --------------------- *)

\* Where allocate fails: nowhere, in iree_allocator_malloc, in the
\* cuEventCreate of a pool slot or of base_event, or in the calibration.
FailPoints ==
    {[at |-> a, object |-> NULL] :
        a \in {"none", "malloc", "cuEventRecord", "cuEventSynchronize"}}
    \cup {[at |-> "cuEventCreate", object |-> o] : o \in Objects}

\* The device objects allocate creates before it stops at `fail`; a failed
\* cuEventCreate leaves the handle as iree_allocator_malloc zeroed it.
CreatedBefore(fail) ==
    CASE fail.at = "malloc" -> {}
      [] fail.at = "cuEventCreate" -> {o \in Objects : o < fail.object}
      [] OTHER -> Objects

\* What context_free does to a context whose non-null handles are `handles`:
\* the collect, one cuEventDestroy per pool slot with a handle in slot order,
\* one for base_event if it has a handle, then the release of the context.
TeardownCall(name, object) == [call |-> name, object |-> object]

\* A context_free that destroys every slot's event and base_event without
\* looking at the handle.
TeardownDestroysEverySlot(handles) ==
    [k \in 1 .. query_capacity |-> TeardownCall("cuEventDestroy", k - 1)]
    \o <<TeardownCall("cuEventDestroy", BaseEvent)>>

TeardownDestroys(handles) ==
    LET slots == [k \in 1 .. query_capacity |-> k - 1]
        HasHandle(o) == o \in handles
        Destroy(o) == TeardownCall("cuEventDestroy", o)
        pool == SelectSeq(slots, HasHandle)
    IN  [k \in DOMAIN pool |-> Destroy(pool[k])]
        \o (IF BaseEvent \in handles THEN <<Destroy(BaseEvent)>> ELSE <<>>)

Teardown(handles) ==
    <<TeardownCall("collect", NULL)>>
    \o TeardownDestroys(handles)
    \o <<TeardownCall("iree_allocator_free", NULL)>>

\* A calibration that records base_event again after the synchronize.
InitialCalibrationRecordsAgain(fail) ==
    IF fail.at = "cuEventRecord" THEN 0
    ELSE IF fail.at = "cuEventSynchronize" THEN 1
    ELSE 2

\* iree_hal_cuda_tracing_context_initial_calibration: the number of
\* cuEventRecord calls it makes on base_event.
InitialCalibration(fail) == IF fail.at = "cuEventRecord" THEN 0 ELSE 1

\* iree_hal_cuda_tracing_context_allocate with verbosity v, failing at `fail`,
\* iree_tracing_time() reading t at the calibration.
Allocate(v, fail, t) ==
    /\ context = "none"
    /\ status = "none"
    /\ op' = [name |-> "Allocate", list |-> 0, visited |-> <<>>]
    /\ created' = CreatedBefore(fail)
    /\ base_records' =
         IF BaseEvent \in CreatedBefore(fail)
         THEN base_records + InitialCalibration(fail) ELSE base_records
    /\ UNCHANGED <<asserts, submitted_event_list, event_lists, device, halted,
                   emitted, notifyCount, issued, history, submitLog, irregular,
                   calls, zone, threadVars, query_capacity>>
    /\ IF fail.at = "none"
       THEN /\ status' = "ok"
            /\ context' = "live"
            /\ verbosity' = v
            /\ event_pool' = LinkedPool(query_capacity)
            /\ event_freelist_head' = 0
            /\ tracy_contexts' = Append(tracy_contexts, TracyContext(t))
            /\ teardown' = <<>>
       ELSE \* *out_context stays NULL; context_free(context) on what was made
            /\ status' = "error"
            /\ teardown' = IF fail.at = "malloc" THEN <<>>
                           ELSE Teardown(CreatedBefore(fail))
            /\ UNCHANGED <<context, verbosity, event_pool,
                           event_freelist_head, tracy_contexts>>

\* iree_hal_cuda_tracing_context_free: return on NULL; otherwise collect, then
\* the destroys.  A collect that never returns leaves the rest undone.
ContextFree ==
    /\ context # "freed"
    /\ UNCHANGED <<zone, threadVars, configVars, status, created, base_records,
                   tracy_contexts>>
    /\ IF context = "none"
       THEN /\ teardown' = <<TeardownCall("return", NULL)>>
            /\ UNCHANGED <<callVars, context>>
       ELSE /\ Collect
            /\ IF halted' = "none"
               THEN /\ context' = "freed"
                    /\ teardown' = Teardown(created)
               ELSE /\ context' = "live"
                    /\ teardown' = <<TeardownCall("collect", NULL)>>

(* ------------------------------ threads ------------------------------- *)

\* The fields the operations read and write between iree_slim_mutex_lock and
\* iree_slim_mutex_unlock.
Guarded == <<event_pool, event_freelist_head, submitted_event_list, event_lists>>

CallNames == {"InsertQuery", "NotifySubmitted", "Collect", "Free"}

\* The event list thread t passes to its calls.
ListOf(t) == ((t - 1) % NumLists) + 1

\* Calls that have started and have not run their body yet.
Started == {t \in Threads : pc[t] \in {"lock", "locked", "body", "synchronize"}}

\* The first event of the collect walk the device has not completed, or NULL.
PendingEvent ==
    LET walk == WalkLists(event_pool, SubmittedHeads)
        pending == {i \in DOMAIN walk : device[walk[i]] = NotReady}
    IN  IF pending = {} THEN NULL
        ELSE walk[CHOOSE i \in pending : \A j \in pending : i <= j]

\* A step of thread t that only moves t to `to`.
Goto(t, to) ==
    /\ halted = "none"
    /\ context = "live"
    /\ pc' = [pc EXCEPT ![t] = to]
    /\ UNCHANGED <<callVars, zone, lifeVars, configVars>>

\* Thread t enters one of the public operations, while the threads have made
\* fewer than cap calls.
Begin(t, name, cap) ==
    /\ pc[t] = "idle"
    /\ calls + Cardinality(Started) < cap
    /\ Goto(t, "lock")
    /\ call' = [call EXCEPT ![t] =
                   [name |-> name,
                    list |-> IF name = "Collect" THEN 0 ELSE ListOf(t),
                    event |-> NULL]]
    /\ UNCHANGED <<event_mutex, seen>>

\* A lock that lets a thread in while another thread holds it.
LockWithoutExclusion(t) ==
    /\ pc[t] = "lock"
    /\ Goto(t, "locked")
    /\ event_mutex' = t
    /\ UNCHANGED <<call, seen>>

\* iree_slim_mutex_lock(&context->event_mutex)
Lock(t) ==
    /\ pc[t] = "lock"
    /\ event_mutex = NULL
    /\ Goto(t, "locked")
    /\ event_mutex' = t
    /\ UNCHANGED <<call, seen>>

\* The first read the body makes of the guarded fields.
Enter(t) ==
    /\ pc[t] = "locked"
    /\ Goto(t, "body")
    /\ seen' = [seen EXCEPT ![t] = Guarded]
    /\ UNCHANGED <<call, event_mutex>>

\* cuEventSynchronize in collect, on an event the device has not completed:
\* the thread blocks in the driver, with event_mutex held.
Synchronize(t) ==
    /\ pc[t] = "body"
    /\ call[t].name = "Collect"
    /\ PendingEvent # NULL
    /\ Goto(t, "synchronize")
    /\ call' = [call EXCEPT ![t].event = PendingEvent]
    /\ UNCHANGED <<event_mutex, seen>>

\* The device has completed the event; cuEventSynchronize returns.
SynchronizeReturns(t) ==
    /\ pc[t] = "synchronize"
    /\ device[call[t].event] # NotReady
    /\ Goto(t, "body")
    /\ call' = [call EXCEPT ![t].event = NULL]
    /\ UNCHANGED <<event_mutex, seen>>

\* Thread t runs the body A of its call, up to the unlock; a body that
\* halts the process never gets there.
Body(t, name, A) ==
    /\ pc[t] = "body"
    /\ call[t].name = name
    /\ context = "live"
    /\ A
    /\ pc' = [pc EXCEPT ![t] = IF halted' = "none" THEN "unlock" ELSE "body"]
    /\ UNCHANGED <<call, event_mutex, seen, zone, lifeVars, configVars>>

\* A return that leaves event_mutex locked when free took its return for an
\* empty free list (the caller's list still has its head then).
UnlockNotOnEarlyReturn(t) ==
    /\ pc[t] = "unlock"
    /\ Goto(t, "idle")
    /\ event_mutex' = IF /\ call[t].name = "Free"
                         /\ event_lists[call[t].list].head # NULL
                      THEN event_mutex ELSE NULL
    /\ call' = [call EXCEPT ![t] = NoCall]
    /\ seen' = [seen EXCEPT ![t] = <<>>]

\* iree_slim_mutex_unlock(&context->event_mutex), and the return.
Unlock(t) ==
    /\ pc[t] = "unlock"
    /\ Goto(t, "idle")
    /\ event_mutex' = NULL
    /\ call' = [call EXCEPT ![t] = NoCall]
    /\ seen' = [seen EXCEPT ![t] = <<>>]

\* The insert_query of a zone begin / end impl of thread t, whose verbosity
\* the context lets through; the thread keeps the query id it returns.
ZoneInsertQuery(t) ==
    /\ pc[t] = "body"
    /\ call[t].name \in ZoneNames
    /\ context = "live"
    /\ InsertQuery(call[t].list)
    /\ pc' = [pc EXCEPT ![t] = IF halted' = "none" THEN "zone_unlock"
                                ELSE "body"]
    /\ call' = [call EXCEPT ![t].event = event_freelist_head]
    /\ UNCHANGED <<event_mutex, seen, zone, lifeVars, configVars>>

\* The unlock at the end of insert_query, and its return to the zone impl.
ZoneUnlock(t) ==
    /\ pc[t] = "zone_unlock"
    /\ Goto(t, "sink")
    /\ event_mutex' = NULL
    /\ UNCHANGED <<call, seen>>

\* The zone impl forwards the begin / end event to the sink, and returns.
ZoneSink(t) ==
    /\ pc[t] = "sink"
    /\ halted = "none"
    /\ context = "live"
    /\ zone' = [name |-> call[t].name, list |-> call[t].list, verbosity |-> 0,
                sink |-> <<SinkCall(call[t].name, call[t].event)>>]
    /\ pc' = [pc EXCEPT ![t] = "idle"]
    /\ call' = [call EXCEPT ![t] = NoCall]
    /\ seen' = [seen EXCEPT ![t] = <<>>]
    /\ UNCHANGED <<callVars, event_mutex, lifeVars, configVars>>

(* -------------------------- specifications ----------------------------- *)

Next ==
    \/ \E l \in Lists : OnContext(InsertQuery(l))
    \/ \E e \in Events : OnContext(DeviceComplete(e))
    \/ \E l \in Lists : OnContext(NotifySubmitted(l))
    \/ OnContext(Collect)
    \/ \E l \in Lists : OnContext(Free(l))

Spec == Init /\ [][Next]_vars

\* Callers that only insert queries and free event lists.
NextInsertFree ==
    \/ \E l \in Lists : OnContext(InsertQuery(l))
    \/ \E e \in Events : OnContext(DeviceComplete(e))
    \/ \E l \in Lists : OnContext(Free(l))

SpecInsertFree == Init /\ [][NextInsertFree]_vars

\* Callers that never free an event list.
NextNoFree ==
    \/ \E l \in Lists : OnContext(InsertQuery(l))
    \/ \E e \in Events : OnContext(DeviceComplete(e))
    \/ \E l \in Lists : OnContext(NotifySubmitted(l))
    \/ OnContext(Collect)

SpecNoFree == Init /\ [][NextNoFree]_vars

\* Callers that make at most MaxShortCalls calls.
Short(A) == calls < MaxShortCalls /\ OnContext(A)

NextShort ==
    \/ \E l \in Lists : Short(InsertQuery(l))
    \/ \E e \in Events : Short(DeviceComplete(e))
    \/ \E l \in Lists : Short(NotifySubmitted(l))
    \/ Short(Collect)
    \/ \E l \in Lists : Short(Free(l))

SpecShort == Init /\ [][NextShort]_vars

\* Callers that use both the stream and the graph insert_query.
NextVariants ==
    \/ \E l \in Lists : Short(InsertQuery(l))
    \/ \E l \in Lists, ok \in BOOLEAN : Short(InsertQueryGraph(l, ok))
    \/ \E e \in Events : Short(DeviceComplete(e))
    \/ \E l \in Lists : Short(NotifySubmitted(l))
    \/ Short(Collect)
    \/ \E l \in Lists : Short(Free(l))

SpecVariants == Init /\ [][NextVariants]_vars

\* Builds with an event_pool of any size up to QueryCapacity, zero included.
InitAnyCapacity == \E n \in 0 .. QueryCapacity : InitContext(n, MaxVerbosity)

SpecAnyCapacity == InitAnyCapacity /\ [][NextShort]_vars

\* Callers that trace through the zone impls, on a context of any verbosity
\* or on a NULL context.
InitZones ==
    \/ \E v \in Verbosities : InitContext(QueryCapacity, v)
    \/ InitNoContext

NextZones ==
    \/ \E name \in ZoneNames, l \in Lists, v \in Verbosities :
          calls < MaxShortCalls /\ Zone(name, l, v)
    \/ \E e \in Events : Short(DeviceComplete(e))
    \/ \E l \in Lists : Short(NotifySubmitted(l))
    \/ Short(Collect)
    \/ \E l \in Lists : Short(Free(l))

SpecZones == InitZones /\ [][NextZones]_vars

\* The life of a context from allocate to context_free, under callers that
\* make at most MaxShortCalls calls.
NextLifetime ==
    \/ \E fail \in FailPoints, t \in HostTimes :
          Allocate(MaxVerbosity, fail, t)
    \/ \E l \in Lists : Short(InsertQuery(l))
    \/ \E e \in Events : Short(DeviceComplete(e))
    \/ \E l \in Lists : Short(NotifySubmitted(l))
    \/ Short(Collect)
    \/ \E l \in Lists : Short(Free(l))
    \/ ContextFree

SpecLifetime == InitNoContext /\ [][NextLifetime]_vars

\* Callers that end with context_free.
NextTeardown ==
    \/ \E l \in Lists : OnContext(InsertQuery(l))
    \/ \E e \in Events : OnContext(DeviceComplete(e))
    \/ \E l \in Lists : OnContext(NotifySubmitted(l))
    \/ OnContext(Collect)
    \/ \E l \in Lists : OnContext(Free(l))
    \/ ContextFree

InitTeardown == Init \/ InitNoContext

SpecTeardown == InitTeardown /\ [][NextTeardown]_vars

\* Threads that call into one context concurrently, each with its own event
\* list.
NextThreads(cap) ==
    \/ \E t \in Threads, name \in CallNames : Begin(t, name, cap)
    \/ \E t \in Threads : Lock(t)
    \/ \E t \in Threads : Enter(t)
    \/ \E t \in Threads : Synchronize(t)
    \/ \E t \in Threads : SynchronizeReturns(t)
    \/ \E t \in Threads : Body(t, "InsertQuery", InsertQuery(call[t].list))
    \/ \E t \in Threads : Body(t, "NotifySubmitted", NotifySubmitted(call[t].list))
    \/ \E t \in Threads : Body(t, "Collect", Collect)
    \/ \E t \in Threads : Body(t, "Free", Free(call[t].list))
    \/ \E t \in Threads : Unlock(t)
    \/ \E e \in Events : OnContext(DeviceComplete(e))

SpecThreads == Init /\ [][NextThreads(MaxThreadCalls)]_vars

\* The same threads, making up to MaxShortCalls calls.
SpecThreadsShort == Init /\ [][NextThreads(MaxShortCalls)]_vars

\* Threads that insert their queries through the zone impls.
NextZoneThreads ==
    \/ \E t \in Threads,
          name \in ZoneNames \cup {"NotifySubmitted", "Collect", "Free"} :
          Begin(t, name, MaxZoneCalls)
    \/ \E t \in Threads : Lock(t)
    \/ \E t \in Threads : Enter(t)
    \/ \E t \in Threads : Synchronize(t)
    \/ \E t \in Threads : SynchronizeReturns(t)
    \/ \E t \in Threads : ZoneInsertQuery(t)
    \/ \E t \in Threads : ZoneUnlock(t)
    \/ \E t \in Threads : ZoneSink(t)
    \/ \E t \in Threads : Body(t, "NotifySubmitted", NotifySubmitted(call[t].list))
    \/ \E t \in Threads : Body(t, "Collect", Collect)
    \/ \E t \in Threads : Body(t, "Free", Free(call[t].list))
    \/ \E t \in Threads : Unlock(t)
    \/ \E e \in Events : OnContext(DeviceComplete(e))

SpecZoneThreads == Init /\ [][NextZoneThreads]_vars

(* ------------------------------ claims --------------------------------- *)

\* C1: under callers that only insert queries and free event lists, every
\* event of the pool is on exactly one of the free list, one caller-owned
\* event list, or the submitted list.
C1_Partition ==
    halted = "none" =>
        \A e \in Events :
            (IF e \in FreeListSet THEN 1 ELSE 0)
            + Cardinality({l \in Lists : e \in ListSet(l)})
            + (IF e \in SubmittedSet THEN 1 ELSE 0) = 1

\* C2: a query handed out by insert_query never gets two zone_notify calls,
\* and has got exactly one by the time its event is back on the free list.
C2_NotifiedExactlyOnce ==
    halted = "none" =>
        \A e \in issued :
            /\ notifyCount[e] <= 1
            /\ e \in FreeListSet => notifyCount[e] = 1

\* C3: with no free in between, insert_query fails only once all
\* QueryCapacity events have been handed out, each to one query, and then it
\* fails as a fatal stop that leaves the lists as they were.
C3_ExhaustedAfterCapacity ==
    /\ \A l, k \in Lists :
         \A i \in DOMAIN history[l].queries, j \in DOMAIN history[k].queries :
            (l # k \/ i # j) => history[l].queries[i] # history[k].queries[j]
    /\ (op.name = "InsertQuery" /\ halted # "none") =>
            /\ halted \in {"assert", "segv"}
            /\ Cardinality(issued) = QueryCapacity
            /\ event_freelist_head = NULL

\* C4: a collect that meets an event whose result is not available notifies
\* exactly the events walked before it, and leaves the list holding that event
\* and every later list on the submitted list, in their order.
C4_StopsAtPending ==
    [][(op'.name = "Collect" /\ calls' # calls /\ halted' = "none") =>
        LET heads == SubmittedHeads
            chain(i) == WalkCommandBuffer(event_pool, heads[i], <<>>).nodes
            blocked == {i \in DOMAIN heads :
                          \E k \in DOMAIN chain(i) : device[chain(i)[k]] = NotReady}
        IN  blocked # {} =>
              LET first == CHOOSE i \in blocked : \A j \in blocked : i <= j
                  pend == CHOOSE k \in DOMAIN chain(first) :
                             /\ device[chain(first)[k]] = NotReady
                             /\ \A m \in 1 .. (k - 1) :
                                   device[chain(first)[m]] # NotReady
              IN  /\ QueryIds(emitted') =
                        WalkLists(event_pool, SubSeq(heads, 1, first - 1))
                        \o SubSeq(chain(first), 1, pend - 1)
                  /\ SubmittedHeads' = SubSeq(heads, first, Len(heads))
      ]_vars

\* C5: freeing a list that was built by k insert_query calls, submitted, and
\* collected with all k results available puts its k events on the free list,
\* leaves none of them on the submitted list, and (no other list having
\* inserted or freed meanwhile) restores the free list to the size it had
\* before the list's first insert_query.
C5_RoundTrip ==
    [][(/\ op'.name = "Free" /\ calls' # calls /\ halted' = "none"
        /\ history[op'.list].phase = "resolved"
        /\ history[op'.list].queries # <<>>) =>
        LET h == history[op'.list] IN
        /\ SeqSet(h.queries) \subseteq FreeListSet'
        /\ SeqSet(h.queries) \cap SubmittedSet' = {}
        /\ h.solo => Cardinality(FreeListSet') = h.base
      ]_vars

\* C6: freeing a non-empty list that was never submitted emits one zero
\* zone_notify per query of the list, in list order, and leaves every event
\* of the list on the free list.
C6_DiscardNotifies ==
    [][(/\ op'.name = "Free" /\ calls' # calls
        /\ history[op'.list].phase = "building") =>
        LET h == history[op'.list] IN
        /\ halted' = "none"
        /\ emitted' = [i \in DOMAIN h.queries |-> Notify(h.queries[i], 0)]
        /\ SeqSet(h.queries) \subseteq FreeListSet'
      ]_vars

\* C7: freeing a non-empty list emits synthetic notifications exactly when the
\* caller never passed the list to notify_submitted, and was_submitted on a
\* list head tells whether the list was passed to notify_submitted.
C7_SyntheticIffNeverSubmitted ==
    [][(/\ op'.name = "Free" /\ calls' # calls
        /\ history[op'.list].queries # <<>>
        /\ event_lists[op'.list].head # NULL) =>
        /\ (emitted' # <<>>) <=> (history[op'.list].phase = "building")
        /\ event_pool[event_lists[op'.list].head].was_submitted
             <=> (history[op'.list].phase # "building")
      ]_vars

\* C8: a collect over a submitted list whose N queries are all available
\* emits N zone_notify calls for the list, with N distinct query ids, in the
\* order in which insert_query appended them.
C8_CollectInAppendOrder ==
    [][(op'.name = "Collect" /\ calls' # calls /\ halted' = "none") =>
        \A l \in Lists :
            LET q == history[l].queries
                mine(n) == n.query_id \in SeqSet(q)
            IN  (/\ history[l].phase = "submitted"
                 /\ q # <<>>
                 /\ \A i \in DOMAIN q : device[q[i]] # NotReady) =>
                    /\ QueryIds(SelectSeq(emitted', mine)) = q
                    /\ Cardinality(SeqSet(q)) = Len(q)
      ]_vars

\* C9: notify_submitted appends the list head after the current tail of the
\* submitted list, and a collect visits the lists in the order of their
\* notify_submitted calls.
C9_Fifo ==
    [][/\ (op'.name = "NotifySubmitted" /\ calls' # calls
           /\ event_lists[op'.list].head # NULL) =>
              SubmittedHeads' = Append(SubmittedHeads, event_lists[op'.list].head)
       /\ (op'.name = "Collect" /\ calls' # calls /\ halted' = "none") =>
              op'.visited = submitLog
      ]_vars

\* C10: a collect emits no zone_notify for an event of a later-submitted list
\* while an earlier list on the submitted list has an unresolved event.
C10_HeadOfLine ==
    [][(op'.name = "Collect" /\ calls' # calls) =>
        LET heads == SubmittedHeads
            chain(i) == WalkCommandBuffer(event_pool, heads[i], <<>>).nodes
        IN  \A i, j \in DOMAIN heads :
               (/\ i < j
                /\ \E k \in DOMAIN chain(i) : device[chain(i)[k]] = NotReady) =>
                   SeqSet(QueryIds(emitted')) \cap SeqSet(chain(j)) = {}
      ]_vars

\* C11: a pending result only defers the report.  A collect that runs when
\* every result is available leaves every query of a list that was submitted,
\* and met pending by an earlier collect, notified.
C11_PendingOnlyDefers ==
    [][(/\ op'.name = "Collect" /\ calls' # calls /\ halted' = "none"
        /\ \A e \in Events : device[e] # NotReady) =>
        \A l \in Lists :
            history[l].phase = "partial" =>
                \A i \in DOMAIN history[l].queries :
                    notifyCount'[history[l].queries[i]] >= 1
      ]_vars

\* C12: a collect that finds the submitted list empty makes no zone_notify
\* call and leaves the free list, the submitted list's head and tail, every
\* event's links and flag, and every caller-owned event list as they were.
C12_CollectEmptyNoOp ==
    [][(/\ op'.name = "Collect" /\ calls' # calls
        /\ submitted_event_list.head = NULL) =>
        /\ emitted' = <<>>
        /\ halted' = halted
        /\ UNCHANGED <<event_pool, event_freelist_head, submitted_event_list,
                       event_lists, notifyCount>>
      ]_vars

\* A collect has just returned from an empty submitted list whose tail still
\* names the last list submitted, with events out on caller-owned lists.
C12_Witness ==
    /\ op.name = "Collect"
    /\ op.visited = <<>>
    /\ submitted_event_list.head = NULL
    /\ submitted_event_list.tail # NULL
    /\ \E l \in Lists : event_lists[l].head # NULL

C16_ZoneActsIffEnabled ==
    [][(zone' # zone \/ (op'.name = "InsertQuery" /\ calls' # calls)) =>
        IF context = "live" /\ zone'.verbosity <= verbosity
        THEN /\ halted' = "none"
             /\ Cardinality(FreeListSet') + 1 = Cardinality(FreeListSet)
             /\ event_lists'[zone'.list].tail \notin FreeListSet'
             /\ zone'.sink =
                   <<SinkCall(zone'.name, event_lists'[zone'.list].tail)>>
        ELSE /\ zone'.sink = <<>>
             /\ UNCHANGED <<event_pool, event_freelist_head, event_lists,
                            submitted_event_list>>
      ]_vars

\* The cuEventDestroy calls on device object o in a context_free.
DestroysOf(log, o) ==
    Cardinality({k \in DOMAIN log :
                    log[k].call = "cuEventDestroy" /\ log[k].object = o})

\* C17: an allocate that fails returns an error and no context, has made no
\* iree_tracing_gpu_context_allocate call, and has destroyed exactly once
\* every device object it created and none it did not create.
C17_FailedAllocateUnwinds ==
    [][(op'.name = "Allocate" /\ status = "none" /\ status' # "ok") =>
        /\ status' = "error"
        /\ context' = "none"
        /\ tracy_contexts' = <<>>
        /\ \A o \in Objects :
              DestroysOf(teardown', o) = IF o \in created' THEN 1 ELSE 0
      ]_vars

\* An allocate has just failed in the cuEventCreate of a later pool slot or of
\* base_event, with device objects already created, and has destroyed some.
C17_Witness ==
    /\ op.name = "Allocate"
    /\ status = "error"
    /\ created # {}
    /\ created # Objects
    /\ \E o \in created : DestroysOf(teardown, o) = 1

\* C18: context_free on a NULL context changes nothing.  On a live context,
\* whose callers followed the life cycle of their event lists, it returns
\* with the context freed, having run the collect first and then destroyed
\* every pool event and base_event exactly once.
C18_TeardownDestroysAll ==
    [][(teardown' # teardown /\ op'.name # "Allocate" /\ irregular = 0) =>
        IF context = "none"
        THEN UNCHANGED <<callVars, context, created, tracy_contexts>>
        ELSE /\ halted' = "none"
             /\ context' = "freed"
             /\ teardown'[1].call = "collect"
             /\ \A k \in DOMAIN teardown' :
                   teardown'[k].call = "collect" => k = 1
             /\ \A o \in Objects : DestroysOf(teardown', o) = 1
      ]_vars

\* C19 as claimed: every timestamp a collect passes to zone_notify is the
\* host time of the calibration plus the nanoseconds the device measured
\* between base_event and the event.
C19_AnchorPlusElapsed ==
    [][(op'.name = "Collect" /\ calls' # calls) =>
        \A i \in DOMAIN emitted' :
            emitted'[i].timestamp =
                tracy_contexts[1].cpu_timestamp
                + device[emitted'[i].query_id] * 1000000
      ]_vars

\* C19 as amended: every timestamp a collect passes to zone_notify is the
\* nanoseconds the device measured between base_event and the event, with no
\* host time added; the host time of the calibration went to the sink once,
\* in iree_tracing_gpu_context_allocate, as the host time of device time 0.
C19_ElapsedOnly ==
    [][(op'.name = "Collect" /\ calls' # calls) =>
        /\ \A i \in DOMAIN emitted' :
              emitted'[i].timestamp = device[emitted'[i].query_id] * 1000000
        /\ Len(tracy_contexts) = 1
        /\ tracy_contexts[1].cpu_timestamp \in HostTimes
        /\ tracy_contexts[1].gpu_timestamp = 0
      ]_vars

\* A collect has just reported an event with a non-zero elapsed time.
C19_Witness ==
    /\ op.name = "Collect"
    /\ \E i \in DOMAIN emitted :
          /\ device[emitted[i].query_id] > 0
          /\ emitted[i].timestamp = device[emitted[i].query_id] * 1000000

\* C20: a live context has had base_event recorded exactly once and its host
\* time handed to the sink exactly once, both by allocate; every step that
\* is not allocate leaves the record count, the host time and the creation of
\* base_event as they were, and only context_free destroys base_event.
C20_AnchorRecordedOnce ==
    [][/\ context' = "live" =>
             /\ base_records' = 1
             /\ BaseEvent \in created'
             /\ Len(tracy_contexts') = 1
             /\ tracy_contexts'[1].cpu_timestamp \in HostTimes
       /\ op'.name # "Allocate" =>
             /\ UNCHANGED <<base_records, tracy_contexts, created>>
             /\ DestroysOf(teardown', BaseEvent) # DestroysOf(teardown, BaseEvent)
                   => context' = "freed"
      ]_vars

\* On a live context, calibrated once, a collect has just reported an event
\* relative to base_event.
C20_Witness ==
    /\ context = "live"
    /\ base_records = 1
    /\ op.name = "Collect"
    /\ emitted # <<>>

\* C14: under any interleaving of insert_query, notify_submitted, collect and
\* free calls from several threads, at most one thread at a time is between
\* its lock and its unlock of event_mutex, and it is the owner; the guarded
\* fields change only in the body of the owner's call, and every call that
\* runs finds them as it first read them, so the calls take effect one after
\* the other in the order of their bodies.
C14_MutexSerializes ==
    [][/\ \A t \in Threads :
             pc'[t] \in {"locked", "body", "synchronize", "unlock"} =>
                 /\ event_mutex' = t
                 /\ \A u \in Threads \ {t} : pc'[u] \in {"idle", "lock"}
       /\ (Guarded' # Guarded \/ calls' # calls) =>
             \E t \in Threads :
                 /\ pc[t] = "body"
                 /\ event_mutex = t
                 /\ seen[t] = Guarded
                 /\ op'.name = call[t].name
                 /\ \A u \in Threads \ {t} : pc'[u] = pc[u]
      ]_vars

\* A thread has run the body of its call and changed the guarded fields it
\* read, while another thread waits for event_mutex.
C14_Witness ==
    \E t, u \in Threads :
        /\ pc[t] = "unlock"
        /\ event_mutex = t
        /\ seen[t] # Guarded
        /\ op.name = call[t].name
        /\ pc[u] = "lock"

\* C15: no insert_query or free call waits for the device: whenever a thread
\* in one of these calls waits for event_mutex, the owner of event_mutex is
\* not blocked in cuEventSynchronize on an event the device has not
\* completed.
C15_NeverWaitsForDevice ==
    \A t \in Threads :
        (pc[t] = "lock" /\ call[t].name \in {"InsertQuery", "Free"}) =>
            ~ \E u \in Threads :
                  /\ event_mutex = u
                  /\ pc[u] = "synchronize"
                  /\ device[call[u].event] = NotReady

\* C21: events move free list -> caller's list -> submitted list -> resolved
\* -> free list only: under callers that follow the life cycle of a list, no
\* event is on the free list while it can be reached from the submitted
\* list.
C21_FreeNeverQueued ==
    (halted = "none" /\ irregular = 0) => FreeListSet \cap SubmittedSet = {}

\* C22: a collect sets was_submitted on a list head, and moves the head of
\* the submitted list past that list, only when every event of the list has
\* its result available: a list with an unresolved event keeps its flag and
\* stays on the submitted list.
C22_MarksOnlyResolved ==
    [][(op'.name = "Collect" /\ calls' # calls /\ halted' = "none") =>
        \A i \in DOMAIN SubmittedHeads :
            LET head == SubmittedHeads[i]
                chain == WalkCommandBuffer(event_pool, head, <<>>).nodes
            IN  (\E k \in DOMAIN chain : device[chain[k]] = NotReady) =>
                    /\ event_pool'[head].was_submitted
                          = event_pool[head].was_submitted
                    /\ head \in SeqSet(SubmittedHeads')
      ]_vars

\* C23: a free of a non-empty list, in every state and also when the free
\* list is empty, leaves the free list equal to the events of the list in
\* list order followed by the previous free list, and leaves the former head
\* with was_submitted false and next_submission NULL.
C23_FreeSplices ==
    [][(/\ op'.name = "Free" /\ calls' # calls /\ irregular' = 0
        /\ history[op'.list].queries # <<>>
        /\ event_lists[op'.list].head # NULL) =>
        LET head == event_lists[op'.list].head IN
        /\ halted' = "none"
        /\ FreeListSeq' = ListSeq(op'.list) \o FreeListSeq
        /\ event_pool'[head].was_submitted = FALSE
        /\ event_pool'[head].next_submission = NULL
      ]_vars

\* C24: under callers that follow the life cycle of a list, every event on
\* the free list has next_submission NULL and was_submitted false.
C24_FreeListClean ==
    (halted = "none" /\ irregular = 0) =>
        \A e \in FreeListSet :
            /\ event_pool[e].next_submission = NULL
            /\ event_pool[e].was_submitted = FALSE

\* C25: an insert_query on a non-empty free list succeeds; the event it takes
\* is the former head of the free list, an index below query_capacity; the
\* rest of the free list is unchanged; the event's next_in_command_buffer is
\* NULL and the event is the new tail of the caller's list, behind the
\* list's earlier events in their order.  No other operation takes an event
\* off the free list.
C25_InsertPopsHead ==
    [][/\ (op'.name = "InsertQuery" /\ calls' # calls /\ irregular' = 0
           /\ event_freelist_head # NULL) =>
              /\ halted' = "none"
              /\ event_freelist_head \in 0 .. (query_capacity - 1)
              /\ FreeListSeq' = Tail(FreeListSeq)
              /\ event_pool'[event_freelist_head].next_in_command_buffer = NULL
              /\ event_lists'[op'.list].tail = event_freelist_head
              /\ WalkCommandBuffer(event_pool', event_lists'[op'.list].head,
                                   <<>>).nodes
                    = Append(ListSeq(op'.list), event_freelist_head)
       /\ (op'.name # "InsertQuery" /\ halted' = "none" /\ irregular' = 0) =>
              FreeListSet \subseteq FreeListSet'
      ]_vars

\* C26: right after an allocate that succeeds, the free list holds every slot
\* of the pool once, in index order 0 .. query_capacity - 1, the last slot's
\* next_in_command_buffer is NULL, the submitted list is empty, and every
\* slot has next_submission NULL and was_submitted false.
C26_AllocateLinksPool ==
    [][(op'.name = "Allocate" /\ status' = "ok") =>
        /\ FreeListSeq' = [k \in 1 .. query_capacity' |-> k - 1]
        /\ event_pool'[query_capacity' - 1].next_in_command_buffer = NULL
        /\ submitted_event_list' = EmptyList
        /\ \A e \in 0 .. (query_capacity' - 1) :
              /\ event_pool'[e].next_submission = NULL
              /\ event_pool'[e].was_submitted = FALSE
      ]_vars

\* An allocate has just returned a context with a pool of two or more slots.
C26_Witness ==
    /\ op.name = "Allocate"
    /\ status = "ok"
    /\ context = "live"
    /\ query_capacity >= 2
    /\ Len(FreeListSeq) = query_capacity

\* C27: a collect never returns an event to the free list: whatever the
\* device reports, and also when the collect never returns, it leaves the
\* free list head, every event's next_in_command_buffer and every
\* caller-owned list as they were.
C27_CollectKeepsFreeList ==
    [][(op'.name = "Collect" /\ calls' # calls) =>
        /\ event_freelist_head' = event_freelist_head
        /\ event_lists' = event_lists
        /\ \A e \in Events :
              event_pool'[e].next_in_command_buffer
                = event_pool[e].next_in_command_buffer
        /\ FreeListSeq' = FreeListSeq
      ]_vars

\* A collect has just reported the events of a submitted list; they are
\* still on the caller's list and not on the free list.
C27_Witness ==
    /\ op.name = "Collect"
    /\ emitted # <<>>
    /\ \A i \in DOMAIN emitted :
          /\ emitted[i].query_id \notin FreeListSet
          /\ \E l \in Lists : emitted[i].query_id \in ListSet(l)

\* C28: a notify_submitted and a free on a list whose head is NULL emit no
\* zone_notify and leave the submitted list, the free list, every event and
\* every caller-owned list as they were.
C28_EmptyListNoOp ==
    [][(/\ op'.name \in {"NotifySubmitted", "Free"} /\ calls' # calls
        /\ event_lists[op'.list].head = NULL) =>
        /\ emitted' = <<>>
        /\ halted' = halted
        /\ UNCHANGED <<event_pool, event_freelist_head, submitted_event_list,
                       event_lists, notifyCount>>
      ]_vars

\* A notify_submitted or a free has just run on an empty list while another
\* list was on the submitted list.
C28_Witness ==
    /\ op.name \in {"NotifySubmitted", "Free"}
    /\ event_lists[op.list].head = NULL
    /\ history[op.list].queries = <<>>
    /\ submitted_event_list.head # NULL
    /\ emitted = <<>>

\* C29: the stream and the graph insert_query, called in the same state on
\* the same list, leave the same pool, the same free list head, the same
\* caller-owned lists and the same submitted list, and return alike.
C29_VariantsAgree ==
    [][(op'.name \in {"InsertQuery", "InsertQueryGraph"} /\ calls' # calls) =>
        LET stream == InsertQueryPoolState(op'.list) IN
        /\ event_pool' = stream.event_pool
        /\ event_freelist_head' = stream.event_freelist_head
        /\ event_lists' = stream.event_lists
        /\ submitted_event_list' = submitted_event_list
        /\ halted' \in stream.halted
      ]_vars

\* C30: every return of insert_query, notify_submitted, collect and free
\* releases event_mutex, on the early returns too: a thread that returns
\* leaves the mutex free, and the mutex is free whenever no thread is
\* between the lock and the return of a call.
C30_LockReleased ==
    [][/\ \A t \in Threads :
             (pc[t] = "unlock" /\ pc'[t] = "idle") => event_mutex' = NULL
       /\ (\A t \in Threads : pc'[t] \in {"idle", "lock"}) =>
             event_mutex' = NULL
      ]_vars

\* A free that took the return for an empty free list has returned, and no
\* thread holds event_mutex.
C30_Witness ==
    /\ halted = "none"
    /\ op.name = "Free"
    /\ event_lists[op.list].head # NULL
    /\ event_freelist_head = event_lists[op.list].head
    /\ \A t \in Threads : pc[t] = "idle"
    /\ event_mutex = NULL

\* C31: a collect always comes to the end of its walk: after every sequence
\* of insert_query, notify_submitted, collect and free calls, a second
\* notify_submitted of the same list included, the next_submission links
\* from the head of the submitted list and the next_in_command_buffer links
\* of the submitted lists, of every caller-owned list and of the free list
\* end in NULL, and no collect has run forever.
C31_LinksAcyclic ==
    /\ halted # "hang"
    /\ halted = "none" =>
          /\ ~ WalkSubmissions(event_pool, submitted_event_list.head,
                               <<>>).cyclic
          /\ \A i \in DOMAIN SubmittedHeads :
                ~ WalkCommandBuffer(event_pool, SubmittedHeads[i], <<>>).cyclic
          /\ \A l \in Lists :
                ~ WalkCommandBuffer(event_pool, event_lists[l].head,
                                    <<>>).cyclic
          /\ ~ WalkCommandBuffer(event_pool, event_freelist_head, <<>>).cyclic

\* C32: under callers that follow the life cycle of a list, whenever the
\* submitted list is not empty its tail is the last list head reached from
\* its head through next_submission, and the tail's next_submission is NULL.
C32_TailIsLast ==
    (halted = "none" /\ irregular = 0 /\ submitted_event_list.head # NULL) =>
        /\ SubmittedHeads[Len(SubmittedHeads)] = submitted_event_list.tail
        /\ event_pool[submitted_event_list.tail].next_submission = NULL

\* C33: when a free of a non-empty list returns, the caller's list is empty,
\* head and tail NULL, whatever the state of the free list was.
C33_FreeClearsList ==
    [][(/\ op'.name = "Free" /\ calls' # calls /\ halted' = "none"
        /\ event_lists[op'.list].head # NULL) =>
        event_lists'[op'.list] = EmptyList
      ]_vars

\* C34: under every interleaving of threads that each use their own event
\* list and follow its life cycle, the sink gets the zone begin / end event
\* of a query before the zone_notify for it: no collect or free emits a
\* zone_notify for a query whose zone impl has not yet forwarded its event.
C34_BeginBeforeNotify ==
    [][(op'.name \in {"Collect", "Free"} /\ calls' # calls /\ irregular' = 0) =>
        \A i \in DOMAIN emitted' :
            ~ \E t \in Threads :
                  /\ call[t].name \in ZoneNames
                  /\ pc[t] \in {"zone_unlock", "sink"}
                  /\ call[t].event = emitted'[i].query_id
      ]_vars

============================================================================
